---- MODULE Spec2Model ----
(***************************************************************************)
(* A model of kint: the middleware composition engine (src/core/Kint.ts)   *)
(* and the route tree builder and dispatcher (src/RouteTreeNode.ts).       *)
(*                                                                         *)
(* Five specifications share the module:                                   *)
(*   Spec          chains are composed, endpoints defined, and requests    *)
(*                 run through the compiled middleware chains;             *)
(*   SpecRun       requests run through one endpoint whose chain is any    *)
(*                 sequence of middleware, also ones that call next never  *)
(*                 or twice;                                               *)
(*   SpecMerge     defineEndpoint merging nested configs;                  *)
(*   SpecDispatch  the request handler of createHandlerFromEndpoint;       *)
(*   SpecBuild     fromDirectory walking a directory tree, and             *)
(*                 toExpressRouter on the tree it returns.                 *)
(***************************************************************************)
EXTENDS Integers, Sequences, FiniteSets, TLC

VARIABLES
    \* composition and execution of middleware chains
    kints,       \* heap of Kint objects: <<[defaultConfig, handlerBuilder]>>
    endpoints,   \* artifacts returned by defineEndpoint: <<[config, chain]>>
    contexts,    \* heap of context objects: <<[slot -> value]>>
    req,         \* per request: [status, ep, ctx, stack, log, received, result]
    given,       \* the arguments of each defineEndpoint call: the receiver's
                 \* default config and the config argument
    \* the handler returned by createHandlerFromEndpoint
    endpoint,    \* the endpoint it was created from
    incoming,    \* the request as it arrived
    request,     \* the request object (req), rewritten by the handler
    response,    \* the response object (res): [status, body, sends]
    parsed,      \* the fields parseSchemaDefinition was applied to, in order
    handlerCalls,\* the requests endpoint.handler was invoked with
    returned,    \* what endpoint.handler returned
    nextCalls,   \* how often the handler called next()
    pc,          \* "idle", "handler" (awaiting endpoint.handler), "done"
    \* fromDirectory
    fs,          \* the routes directory: a set of [path, kind, module]
    nodes,       \* arena of RouteTreeNode objects
    walk,        \* call stack of populateWithDirectoryContents
    build,       \* "setup", "walking", "done" (tree returned), "failed" (thrown)
    buildError,  \* the error thrown
    router       \* the Router returned by toExpressRouter

chainVars == <<kints, endpoints, contexts, req, given>>
dispatchVars == <<endpoint, incoming, request, response, parsed, handlerCalls,
                  returned, nextCalls, pc>>
buildVars == <<fs, nodes, walk, build, buildError, router>>
vars == <<chainVars, dispatchVars, buildVars>>

(***************************************************************************)
(* Bounds                                                                  *)
(***************************************************************************)
MaxKints == 3
MaxEndpoints == 1
MaxEntries == 3
MaxDepth == 2
MaxNesting == 2
MaxChain == 2

\* two requests in flight
Requests == {1, 2}

(***************************************************************************)
(* JavaScript values.  A primitive value is a string, "undefined" is the   *)
(* value of an absent argument or property.                                *)
(***************************************************************************)
Undefined == "undefined"

\* Kint.ts:131  `if (extension)`: JavaScript truthiness
Truthy(v) == v \notin {"undefined", "null", "false", "0", ""}

\* A value that identifies the request a middleware is serving (for example
\* the user it authenticated).
Token(r) == CASE r = 1 -> "tokA" [] r = 2 -> "tokB" [] OTHER -> "tokC"

(***************************************************************************)
(* Middleware descriptors.  `ext` is what the handler passes to next       *)
(* ("$token": a value computed from the request), `calls` how many times   *)
(* the handler calls next.                                                 *)
(***************************************************************************)
MiddlewareNames == {"auth", "log", "flag", "gate", "retry"}

Middlewares ==
    { [name |-> "auth", ext |-> "$token",   calls |-> 1],
      [name |-> "log",  ext |-> Undefined,  calls |-> 1],
      [name |-> "flag", ext |-> "0",        calls |-> 1] }

\* the middleware of the chains the router runs: also one that calls next
\* twice
RunMiddlewares ==
    Middlewares \cup { [name |-> "gate",  ext |-> Undefined, calls |-> 0],
                       [name |-> "retry", ext |-> Undefined, calls |-> 2] }

Extension(mw, r) == IF mw.ext = "$token" THEN Token(r) ELSE mw.ext

(***************************************************************************)
(* Configuration objects: one slot per middleware name.  The value of a    *)
(* key is absent, a leaf (a string) or a nested object with keys of its    *)
(* own.                                                                    *)
(***************************************************************************)
Absent == <<>>

Leaf(v) == <<v>>

Object(f) == <<"object", f>>

IsObject(value) == Len(value) = 2

\* the keys of a nested object
SubKeys == {"mode", "ttl"}

\* the property `key` of a nested object
Get(object, key) ==
    IF key \in DOMAIN object[2] THEN object[2][key] ELSE Absent

NoConfig == [k \in MiddlewareNames |-> Absent]

PartialConfigs ==
    { [NoConfig EXCEPT !["auth"] = Leaf("strict")],
      [NoConfig EXCEPT !["log"] = Leaf("quiet")] }

\* config values nested up to `depth` objects deep: an object has any of the
\* keys "mode" and "ttl"; "mode" may hold a further object
RECURSIVE ConfigValues(_)
ConfigValues(depth) ==
    LET leaves == {Absent, Leaf("x"), Leaf("y")}
    IN  IF depth = 0 THEN leaves
        ELSE leaves \cup
             UNION { { Object(f) :
                       f \in { g \in [keys -> ConfigValues(depth - 1)] :
                                 "ttl" \in keys => g["ttl"] \in leaves } } :
                     keys \in SUBSET SubKeys }

\* configs with a nested "auth" slot
NestedConfigs ==
    { [NoConfig EXCEPT !["auth"] = a] : a \in ConfigValues(MaxNesting) }

\* the config argument of defineEndpoint
EndpointConfigs == {NoConfig, [NoConfig EXCEPT !["log"] = Leaf("loud")]}

\* utils/extendObject: the default config extended by a partial object
extendObject(object, extension) ==
    [k \in MiddlewareNames |->
        IF extension[k] # Absent THEN extension[k] ELSE object[k]]

\* the merge of one key: the endpoint's value if it has one; where both
\* sides hold objects the merge descends into them
RECURSIVE mergeMissingItem(_, _)
mergeMissingItem(defaultValue, value) ==
    IF value = Absent THEN defaultValue
    ELSE IF IsObject(value) /\ IsObject(defaultValue)
    THEN Object([k \in DOMAIN value[2] \cup DOMAIN defaultValue[2] |->
                    mergeMissingItem(Get(defaultValue, k), Get(value, k))])
    ELSE value

\* utils/mergeDefaultWithMissingItems: the endpoint's config, with the keys
\* it leaves absent, at any depth, taken from the default
mergeDefaultWithMissingItems(defaultConfig, config) ==
    [k \in MiddlewareNames |-> mergeMissingItem(defaultConfig[k], config[k])]

\* setConfig's argument: a config object, or a function of the current default
NewConfigs ==
    { [fn |-> "none", value |-> [NoConfig EXCEPT !["auth"] = Leaf("lax")]],
      [fn |-> "dropLog", value |-> NoConfig] }

\* utils/getFromFnOrValue
getFromFnOrValue(newConfig, defaultConfig) ==
    IF newConfig.fn = "none" THEN newConfig.value
    ELSE [defaultConfig EXCEPT !["log"] = Absent]

(***************************************************************************)
(* Kint objects.  handlerBuilder is the nest of closures built by          *)
(* addMiddleware, kept as the sequence of the middleware it wraps: the     *)
(* first element is the innermost layer, the last the outermost.           *)
(***************************************************************************)
\* Kint.new(): empty default config, identity handler builder
KintNew == [defaultConfig |-> NoConfig, handlerBuilder |-> <<>>]

addMiddlewareInPlace(heap, k, middleware) ==
    Append([heap EXCEPT ![k].handlerBuilder = Append(@, middleware)],
           [defaultConfig |-> heap[k].defaultConfig,
            handlerBuilder |-> Append(heap[k].handlerBuilder, middleware)])

\* addMiddleware: a new Kint whose builder wraps the receiver's builder
addMiddleware(heap, k, middleware) ==
    Append(heap,
           [defaultConfig |-> heap[k].defaultConfig,
            handlerBuilder |-> Append(heap[k].handlerBuilder, middleware)])

\* extendConfig: a new Kint with the extended default config
extendConfig(heap, k, extension) ==
    Append(heap,
           [defaultConfig |-> extendObject(heap[k].defaultConfig, extension),
            handlerBuilder |-> heap[k].handlerBuilder])

\* setConfig: a new Kint with the resolved config as its default
setConfig(heap, k, newConfig) ==
    Append(heap,
           [defaultConfig |-> getFromFnOrValue(newConfig, heap[k].defaultConfig),
            handlerBuilder |-> heap[k].handlerBuilder])

defineEndpointDefaultFirst(kint, config) ==
    [config |-> mergeDefaultWithMissingItems(config, kint.defaultConfig),
     chain  |-> kint.handlerBuilder]

\* defineEndpoint: the artifact; its handler is the builder's chain around the
\* innermost handler, closed over mergedConfig
defineEndpoint(kint, config) ==
    [config |-> mergeDefaultWithMissingItems(kint.defaultConfig, config),
     chain  |-> kint.handlerBuilder]

(***************************************************************************)
(* The compiled handler.  Layer i >= 1 is the handler returned by the      *)
(* builder of chain[i]; layer 0 is the innermost handler.                  *)
(***************************************************************************)
\* the handler that defineEndpoint obtains from this.handlerBuilder
handlerWithMiddleware(chain) == Len(chain)

wrappedInnerHandlerSkipsChain(i) == 0

\* the handler that layer i's next closure invokes: the previous builder's
\* wrapping of the innermost handler
wrappedInnerHandler(i) == i - 1

\* what a call returns when it has nothing to return
NoResult == <<>>

\* a call of layer i: a middleware handler starts, or the innermost handler;
\* `got` is what its latest call of next returned
Frame(chain, i) ==
    [layer |-> i, left |-> IF i = 0 THEN 0 ELSE chain[i].calls,
     got |-> NoResult]

configSlotOfAuth(config, middleware) == config["auth"]

\* Kint.ts:136 config[middleware.name], the third argument of
\* middleware.handler
configSlot(config, middleware) == config[middleware.name]

\* the arguments layer i is called with: the config object handed down the
\* chain and, for a middleware, the slot its handler receives
Call(chain, config, i) ==
    [layer |-> i, config |-> config,
     slot |-> IF i = 0 THEN Absent ELSE configSlot(config, chain[i])]

nextResultDropped(innerResult) == NoResult

\* Kint.ts:134 `return wrappedInnerHandler(request, context, config)`: what
\* next returns to the middleware handler
nextResult(innerResult) == innerResult

\* what a layer returns: the innermost handler its response, a middleware
\* that never calls next a reply of its own, any other middleware what its
\* latest call of next returned
handlerReturn(chain, i, got) ==
    IF i = 0 THEN <<"handled">>
    ELSE IF chain[i].calls = 0 THEN <<"reply of", chain[i].name>>
    ELSE got

Event(kind, i) == [ev |-> kind, layer |-> i]

Entered(i) == IF i = 0 THEN Event("handler", 0) ELSE Event("pre", i)

(***************************************************************************)
(* The router: toExpressRouter(context) hands the one context object it    *)
(* was given to every handler it creates.                                  *)
(***************************************************************************)
RouterContext == 1

ContextSlots == MiddlewareNames \cup {"global"}

NewContext == [s \in ContextSlots |-> IF s = "global" THEN "g" ELSE Undefined]

\* the context object the handler created by createHandlerFromEndpoint
\* passes to endpoint.handler
HandlerContext(r) == RouterContext

IdleRequest ==
    [status |-> "idle", ep |-> 0, ctx |-> 0, stack |-> <<>>, log |-> <<>>,
     received |-> <<>>, result |-> NoResult]

ChainInit ==
    /\ kints = <<KintNew>>
    /\ endpoints = <<>>
    /\ given = <<>>
    /\ contexts = <<NewContext>>
    /\ req = [r \in Requests |-> IdleRequest]

\* chains are composed and endpoints defined while the modules load, before
\* the router serves a request
Composing == \A r \in Requests : req[r].status = "idle"

AddMiddleware ==
    /\ Composing
    /\ Len(kints) < MaxKints
    /\ \E k \in DOMAIN kints, m \in Middlewares :
          kints' = addMiddleware(kints, k, m)
    /\ UNCHANGED <<endpoints, contexts, req, given, dispatchVars, buildVars>>

ExtendConfig ==
    /\ Composing
    /\ Len(kints) < MaxKints
    /\ \E k \in DOMAIN kints, e \in PartialConfigs :
          kints' = extendConfig(kints, k, e)
    /\ UNCHANGED <<endpoints, contexts, req, given, dispatchVars, buildVars>>

SetConfig ==
    /\ Composing
    /\ Len(kints) < MaxKints
    /\ \E k \in DOMAIN kints, c \in NewConfigs :
          kints' = setConfig(kints, k, c)
    /\ UNCHANGED <<endpoints, contexts, req, given, dispatchVars, buildVars>>

\* kint.defineEndpoint(config, handler) with the config drawn from `configs`
DefineEndpointFrom(configs) ==
    /\ Composing
    /\ Len(endpoints) < MaxEndpoints
    /\ \E k \in DOMAIN kints, c \in configs :
          /\ endpoints' = Append(endpoints, defineEndpoint(kints[k], c))
          /\ given' = Append(given, [defaultConfig |-> kints[k].defaultConfig,
                                     config |-> c])
    /\ UNCHANGED <<kints, contexts, req, dispatchVars, buildVars>>

DefineEndpoint == DefineEndpointFrom(EndpointConfigs)

\* RouteTreeNode.ts:224 endpoint.handler(req, res, context), which runs the
\* outermost layer up to its first suspension point
Invoke(r) ==
    /\ req[r].status = "idle"
    /\ \E e \in DOMAIN endpoints :
          LET chain == endpoints[e].chain
              i == handlerWithMiddleware(chain)
          IN  req' = [req EXCEPT ![r] =
                        [status |-> "running", ep |-> e, ctx |-> HandlerContext(r),
                         stack |-> <<Frame(chain, i)>>,
                         log |-> <<Entered(i)>>,
                         received |-> <<Call(chain, endpoints[e].config, i)>>,
                         result |-> NoResult]]
    /\ UNCHANGED <<kints, endpoints, contexts, given, dispatchVars, buildVars>>

Top(r) == req[r].stack[Len(req[r].stack)]

\* Kint.ts:130-135 the next closure: write the extension, call the inner handler
CallNext(r) ==
    /\ req[r].status = "running"
    /\ Top(r).layer > 0
    /\ Top(r).left > 0
    /\ LET chain == endpoints[req[r].ep].chain
           n == Len(req[r].stack)
           middleware == chain[Top(r).layer]
           extension == Extension(middleware, r)
           inner == wrappedInnerHandler(Top(r).layer)
       IN  /\ contexts' =
                IF Truthy(extension)
                THEN [contexts EXCEPT ![req[r].ctx][middleware.name] = extension]
                ELSE contexts
           /\ req' = [req EXCEPT
                        ![r].stack = Append([@ EXCEPT ![n].left = @ - 1],
                                            Frame(chain, inner)),
                        ![r].log = Append(@, Entered(inner)),
                        ![r].received =
                            Append(@, Call(chain, req[r].received[1].config,
                                           inner))]
    /\ UNCHANGED <<kints, endpoints, given, dispatchVars, buildVars>>

\* a layer returns to the next closure that called it (or to the dispatcher)
Return(r) ==
    /\ req[r].status = "running"
    /\ Top(r).left = 0
    /\ LET n == Len(req[r].stack)
           i == Top(r).layer
           value == handlerReturn(endpoints[req[r].ep].chain, i, Top(r).got)
       IN  req' = [req EXCEPT
                     ![r].stack =
                         IF n = 1 THEN <<>>
                         ELSE [SubSeq(@, 1, n - 1)
                                  EXCEPT ![n - 1].got = nextResult(value)],
                     ![r].log = IF i = 0 THEN @ ELSE Append(@, Event("post", i)),
                     ![r].result = IF n = 1 THEN value ELSE @,
                     ![r].status = IF n = 1 THEN "done" ELSE @]
    /\ UNCHANGED <<kints, endpoints, contexts, given, dispatchVars, buildVars>>

(***************************************************************************)
(* Schema parsing (parseSchemaDefinition): a field value is a string; a    *)
(* schema accepts some values and may coerce them.                         *)
(***************************************************************************)
FieldValues == {"7", " 7", "x"}

\* "number" coerces numeric strings to the number; "word" accepts "x"
Schemas == {"number", "word"}

OrNumberSchema(schemaDef) ==
    IF schemaDef = Undefined THEN "number" ELSE schemaDef

\* `endpointDefinition.<field> ?? {}`
OrEmptySchema(schemaDef) == IF schemaDef = Undefined THEN "{}" ELSE schemaDef

Failure(schemaDef, value) ==
    [success |-> FALSE, data |-> Undefined,
     error |-> <<"Expected ", schemaDef, ", received ", value>>]

Success(value) == [success |-> TRUE, data |-> value, error |-> <<>>]

parseSchemaDefinition(schemaDef, value) ==
    CASE schemaDef = "number" ->
            IF value \in {"7", " 7"} THEN Success("7") ELSE Failure(schemaDef, value)
      [] schemaDef = "word" ->
            IF value = "x" THEN Success("x") ELSE Failure(schemaDef, value)
      [] OTHER -> Success(value)

(***************************************************************************)
(* createHandlerFromEndpoint: the synchronous part of the handler, up to   *)
(* the call of endpoint.handler.                                           *)
(***************************************************************************)
NoResponse == [status |-> 200, body |-> <<>>, sends |-> 0]

\* res.status(400).send('Bad request: ' + error.message)
BadRequest(res, error) ==
    [status |-> 400, body |-> <<"Bad request: ">> \o error, sends |-> res.sends + 1]

Rejected(rq, res, error, fields) ==
    [req |-> rq, res |-> BadRequest(res, error), parsed |-> fields, invoked |-> FALSE]

createHandlerNoReturn(ep, rq, res) ==
    LET parsedBody == parseSchemaDefinition(OrEmptySchema(ep.requestBody), rq.body)
        parsedQueryParams ==
            parseSchemaDefinition(OrEmptySchema(ep.queryParams), rq.query)
        parsedUrlParams ==
            parseSchemaDefinition(OrEmptySchema(ep.urlParams), rq.params)
    IN  IF ~parsedBody.success
        THEN Rejected(rq, res, parsedBody.error, <<"body">>)
        ELSE IF ~parsedQueryParams.success
        THEN Rejected([rq EXCEPT !.body = parsedBody.data], res,
                      parsedQueryParams.error, <<"body", "query">>)
        ELSE [req |-> [body |-> parsedBody.data, query |-> parsedQueryParams.data,
                       params |-> parsedUrlParams.data],
              res |-> IF parsedUrlParams.success THEN res
                      ELSE BadRequest(res, parsedUrlParams.error),
              parsed |-> <<"body", "query", "params">>,
              invoked |-> TRUE]

createHandlerQueryFirst(ep, rq, res) ==
    LET parsedBody == parseSchemaDefinition(OrEmptySchema(ep.requestBody), rq.body)
        parsedQueryParams ==
            parseSchemaDefinition(OrEmptySchema(ep.queryParams), rq.query)
        parsedUrlParams ==
            parseSchemaDefinition(OrEmptySchema(ep.urlParams), rq.params)
    IN  IF ~parsedQueryParams.success
        THEN Rejected(rq, res, parsedQueryParams.error, <<"query">>)
        ELSE IF ~parsedBody.success
        THEN Rejected([rq EXCEPT !.query = parsedQueryParams.data], res,
                      parsedBody.error, <<"query", "body">>)
        ELSE IF ~parsedUrlParams.success
        THEN Rejected([rq EXCEPT !.body = parsedBody.data,
                                 !.query = parsedQueryParams.data], res,
                      parsedUrlParams.error, <<"query", "body", "params">>)
        ELSE [req |-> [body |-> parsedBody.data, query |-> parsedQueryParams.data,
                       params |-> parsedUrlParams.data],
              res |-> res,
              parsed |-> <<"query", "body", "params">>,
              invoked |-> TRUE]

\* RouteTreeNode.ts:192-224
createHandlerFromEndpoint(ep, rq, res) ==
    LET parsedBody == parseSchemaDefinition(OrEmptySchema(ep.requestBody), rq.body)
    IN  IF ~parsedBody.success
        THEN Rejected(rq, res, parsedBody.error, <<"body">>)
        ELSE
    LET rq1 == [rq EXCEPT !.body = parsedBody.data]
        parsedQueryParams ==
            parseSchemaDefinition(OrEmptySchema(ep.queryParams), rq1.query)
    IN  IF ~parsedQueryParams.success
        THEN Rejected(rq1, res, parsedQueryParams.error, <<"body", "query">>)
        ELSE
    LET rq2 == [rq1 EXCEPT !.query = parsedQueryParams.data]
        parsedUrlParams ==
            parseSchemaDefinition(OrEmptySchema(ep.urlParams), rq2.params)
    IN  IF ~parsedUrlParams.success
        THEN Rejected(rq2, res, parsedUrlParams.error, <<"body", "query", "params">>)
        ELSE [req |-> [rq2 EXCEPT !.params = parsedUrlParams.data],
              res |-> res,
              parsed |-> <<"body", "query", "params">>,
              invoked |-> TRUE]

(***************************************************************************)
(* Endpoints of the dispatcher: the declared schemas and what the endpoint *)
(* handler does with the response object.                                  *)
(*   "send"    the handler sends its reply through res and returns it;     *)
(*   "return"  the handler returns its reply and leaves res alone          *)
(*             (test/unit/route-tree-builder/routes/[test]/POST.ts).       *)
(***************************************************************************)
DispatchEndpoints ==
    [requestBody : Schemas \cup {Undefined},
     queryParams : Schemas \cup {Undefined},
     urlParams   : Schemas \cup {Undefined},
     handler     : {"send", "return"}]

IncomingRequests == [body : FieldValues, query : FieldValues, params : FieldValues]

\* what the endpoint handler answers to the request it is given
Reply(rq) == <<"reply: ", rq.body, rq.query, rq.params>>

NoRequest == [body |-> Undefined, query |-> Undefined, params |-> Undefined]

DispatchIdle ==
    /\ incoming = NoRequest
    /\ request = NoRequest
    /\ response = NoResponse
    /\ parsed = <<>>
    /\ handlerCalls = <<>>
    /\ returned = <<>>
    /\ nextCalls = 0
    /\ pc = "idle"

ChainIdle ==
    /\ kints = <<KintNew>>
    /\ endpoints = <<>>
    /\ given = <<>>
    /\ contexts = <<NewContext>>
    /\ req = [r \in Requests |-> IdleRequest]

nextCalledWithoutAwait(invoked) == IF invoked THEN 1 ELSE 0

\* lines 224-225: `await endpoint.handler(req, res, context); next();` the
\* calls of next() made before the awaited handler has settled: none
nextCallsBeforeAwait(invoked) == 0

\* a request arrives: the handler parses the three fields and, if all parse,
\* invokes endpoint.handler and awaits it
Receive ==
    /\ pc \in {"idle", "done"}
    /\ \E rq \in IncomingRequests :
          LET out == createHandlerFromEndpoint(endpoint, rq, NoResponse)
          IN  /\ incoming' = rq
              /\ request' = out.req
              /\ response' = out.res
              /\ parsed' = out.parsed
              /\ handlerCalls' = IF out.invoked THEN <<out.req>> ELSE <<>>
              /\ pc' = IF out.invoked THEN "handler" ELSE "done"
              /\ nextCalls' = nextCallsBeforeAwait(out.invoked)
    /\ returned' = <<>>
    /\ UNCHANGED <<endpoint, chainVars, buildVars>>

\* endpoint.handler completes; the handler then calls next()
HandlerCompletes ==
    /\ pc = "handler"
    /\ response' = IF endpoint.handler = "send"
                   THEN [status |-> 200, body |-> Reply(request),
                         sends |-> response.sends + 1]
                   ELSE response
    /\ returned' = Reply(request)
    /\ nextCalls' = nextCalls + 1
    /\ pc' = "done"
    /\ UNCHANGED <<endpoint, incoming, request, parsed, handlerCalls, chainVars,
                   buildVars>>

(***************************************************************************)
(* The routes directory.  A name is a sequence of tokens ("[id]" is        *)
(* <<"[", "id", "]">>, "GET.ts" is <<"GET", ".", "ts">>), a path a         *)
(* sequence of names.                                                      *)
(***************************************************************************)
DirNames ==
    { <<"users">>, <<"[", "id", "]">>, <<"[", "extra", "]">>,
      <<"[", "a", "-", "b", "]">> }

FileNames ==
    { <<"GET", ".", "ts">>, <<"GET", ".", "js">>, <<"POST", ".", "ts">>,
      <<"README", ".", "md">> }

\* fs.readdirSync lists a directory in this order
EntryOrder ==
    << <<"GET", ".", "js">>, <<"GET", ".", "ts">>, <<"POST", ".", "ts">>,
       <<"README", ".", "md">>, <<"[", "a", "-", "b", "]">>,
       <<"[", "extra", "]">>, <<"[", "id", "]">>, <<"users">> >>

\* what a file's module exports as default: nothing, an object without the
\* marker, an endpoint (builtByKint: true, endpointDefinition, handler) with
\* its urlParams schema keys, or the artifact returned by Kint.defineEndpoint
\* ({builtByKint: true, data: {config, handler, data}})
NoModule == [export |-> "undefined", hasUrlParams |-> FALSE, urlParams |-> <<>>]

Modules ==
    { NoModule,
      [export |-> "object", hasUrlParams |-> FALSE, urlParams |-> <<>>],
      [export |-> "artifact", hasUrlParams |-> FALSE, urlParams |-> <<>>],
      [export |-> "endpoint", hasUrlParams |-> FALSE, urlParams |-> <<>>],
      [export |-> "endpoint", hasUrlParams |-> TRUE, urlParams |-> << <<"id">> >>],
      [export |-> "endpoint", hasUrlParams |-> TRUE,
       urlParams |-> << <<"id">>, <<"extra">> >>] }

Parent(path) == SubSeq(path, 1, Len(path) - 1)

Last(seq) == seq[Len(seq)]

IsDirectory(path) ==
    path = <<>> \/ \E e \in fs : e.path = path /\ e.kind = "dir"

Exists(path) == \E e \in fs : e.path = path

\* fs.readdirSync(pathToCurrentRoute)
readdirSync(path) ==
    SelectSeq(EntryOrder, LAMBDA name : Exists(Append(path, name)))

\* the module stored in the file at `path`
ModuleAt(path) == (CHOOSE e \in fs : e.path = path).module

\* require(moduleName)?.default, where moduleName is the file's path without
\* its extension: the module system resolves it to the .js file if there is
\* one, and to the .ts file otherwise
Require(path) ==
    LET js == Append(Parent(path), <<Last(path)[1], ".", "js">>)
        ts == Append(Parent(path), <<Last(path)[1], ".", "ts">>)
    IN  IF Exists(js) THEN ModuleAt(js) ELSE ModuleAt(ts)

\* /^(PUT|POST|GET|DELETE|PATCH)\.(ts|js)$/
Methods == {"PUT", "POST", "GET", "DELETE", "PATCH"}

IsMethodFile(name) ==
    /\ Len(name) = 3
    /\ name[1] \in Methods
    /\ name[2] = "."
    /\ name[3] \in {"ts", "js"}

\* \w+ : a token without brackets, dots or dashes
IsWord(token) == token \notin {"[", "]", ".", "-", ""}

\* /^\[(\w+)\]$/
IsUrlParamName(name) ==
    /\ Len(name) >= 3
    /\ name[1] = "["
    /\ name[Len(name)] = "]"
    /\ \A i \in 2..(Len(name) - 1) : IsWord(name[i])

\* isKintEndpoint(test): test.builtByKint === true, which throws a TypeError
\* when test is undefined
isKintEndpoint(module) ==
    CASE module.export = "undefined" -> "TypeError"
      [] module.export \in {"endpoint", "artifact"} -> "true"
      [] OTHER -> "false"

\* zodKeys(toZodObject(urlParams))
zodKeys(module) == module.urlParams

(***************************************************************************)
(* Route tree nodes                                                        *)
(***************************************************************************)
NoResource == [m \in {} |-> NoModule]

\* new RouteTreeNode(name, isUrlParam, parent)
RouteTreeNode(name, isUrlParam, parent) ==
    [name |-> name, isUrlParam |-> isUrlParam, parent |-> parent,
     subRoutes |-> <<>>, resource |-> NoResource]

\* createSubRoute(directoryName), called on node `this`
createSubRouteKeepsBrackets(directoryName, this) ==
    RouteTreeNode(directoryName, IsUrlParamName(directoryName), this)

createSubRoute(directoryName, this) ==
    IF IsUrlParamName(directoryName)
    THEN RouteTreeNode(SubSeq(directoryName, 2, Len(directoryName) - 1), TRUE, this)
    ELSE RouteTreeNode(directoryName, FALSE, this)

RECURSIVE UrlParamsFrom(_, _)
UrlParamsFrom(arena, n) ==
    IF n = 0 THEN <<>>
    ELSE (IF arena[n].isUrlParam THEN <<arena[n].name>> ELSE <<>>)
         \o UrlParamsFrom(arena, arena[n].parent)

getAllUrlParamsOfParents(arena, this) == UrlParamsFrom(arena, arena[this].parent)

\* getAllUrlParams(), called on node `this`
getAllUrlParams(arena, this) == UrlParamsFrom(arena, this)

Range(seq) == {seq[i] : i \in DOMAIN seq}

\* the first key of the endpoint's urlParams schema that the route lacks
MissingUrlParams(module, routeDefinedUrlParams) ==
    SelectSeq(zodKeys(module), LAMBDA key : key \notin Range(routeDefinedUrlParams))

NoError == [type |-> "", text |-> "", path |-> <<>>, key |-> <<>>]

(***************************************************************************)
(* toExpressRouter.  A Router is the sequence of routes registered on it   *)
(* (router.get('/', handler) ...) and the sequence of routers mounted on   *)
(* it (router.use(routePath, subRouter)), both in call order.              *)
(***************************************************************************)
\* no Router built yet
NoRouter == [built |-> FALSE, routes |-> <<>>, mounts |-> <<>>]

\* applyResource: GET, PUT, POST, PATCH, DELETE are looked up in this order
ResourceOrder == <<"GET", "PUT", "POST", "PATCH", "DELETE">>

\* applyResource: `GET && router.get('/', createHandlerFromEndpoint(GET))` ...
applyResource(resource) ==
    LET present == SelectSeq(ResourceOrder, LAMBDA m : m \in DOMAIN resource)
    IN  [i \in DOMAIN present |->
            [method |-> present[i], path |-> <<"/">>,
             endpoint |-> resource[present[i]]]]

routePathWithoutColon(subRoute) == <<"/">> \o subRoute.name

\* '/' + (subRoute.isUrlParam ? ':' : '') + subRoute.name
routePath(subRoute) ==
    <<"/">> \o (IF subRoute.isUrlParam THEN <<":">> ELSE <<>>) \o subRoute.name

\* toExpressRouter(context), called on node `this`
RECURSIVE toExpressRouter(_, _)
toExpressRouter(arena, this) ==
    [built |-> TRUE,
     routes |-> applyResource(arena[this].resource),
     mounts |-> [i \in DOMAIN arena[this].subRoutes |->
                    LET subRoute == arena[this].subRoutes[i]
                    IN  [path |-> routePath(arena[subRoute]),
                         router |-> toExpressRouter(arena, subRoute)]]]

BuildIdle ==
    /\ fs = {}
    /\ nodes = <<>>
    /\ walk = <<>>
    /\ build = "setup"
    /\ buildError = NoError
    /\ router = NoRouter

(***************************************************************************)
(* The directory is laid out before fromDirectory is called.               *)
(***************************************************************************)
Mkdir ==
    /\ build = "setup"
    /\ Cardinality(fs) < MaxEntries
    /\ \E e \in fs \cup {[path |-> <<>>, kind |-> "dir", module |-> NoModule]},
          name \in DirNames :
          /\ e.kind = "dir"
          /\ Len(e.path) < MaxDepth
          /\ ~Exists(Append(e.path, name))
          /\ fs' = fs \cup {[path |-> Append(e.path, name), kind |-> "dir",
                             module |-> NoModule]}
    /\ UNCHANGED <<nodes, walk, build, buildError, router, chainVars, dispatchVars>>

WriteFile ==
    /\ build = "setup"
    /\ Cardinality(fs) < MaxEntries
    /\ \E e \in fs \cup {[path |-> <<>>, kind |-> "dir", module |-> NoModule]},
          name \in FileNames, module \in Modules :
          /\ e.kind = "dir"
          /\ ~Exists(Append(e.path, name))
          /\ IsMethodFile(name) \/ module = NoModule
          /\ fs' = fs \cup {[path |-> Append(e.path, name), kind |-> "file",
                             module |-> module]}
    /\ UNCHANGED <<nodes, walk, build, buildError, router, chainVars, dispatchVars>>

(***************************************************************************)
(* fromDirectory and populateWithDirectoryContents.  A frame of `walk` is  *)
(* one call: the node it populates, the directory and the loop index.      *)
(***************************************************************************)
FromDirectory ==
    /\ build = "setup"
    /\ nodes' = <<RouteTreeNode(<<"root">>, FALSE, 0)>>
    /\ walk' = <<[node |-> 1, path |-> <<>>, idx |-> 1]>>
    /\ build' = "walking"
    /\ UNCHANGED <<fs, buildError, router, chainVars, dispatchVars>>

Frame0 == walk[Len(walk)]

CurrentFileName == readdirSync(Frame0.path)[Frame0.idx]

CurrentFile == Append(Frame0.path, CurrentFileName)

InLoop == build = "walking" /\ Frame0.idx <= Len(readdirSync(Frame0.path))

Advance == [walk EXCEPT ![Len(walk)].idx = @ + 1]

\* lines 47-55: a directory: create the sub route and populate it
EnterDirectory ==
    /\ InLoop
    /\ IsDirectory(CurrentFile)
    /\ nodes' = Append(nodes, createSubRoute(CurrentFileName, Frame0.node))
    /\ walk' = Append(walk, [node |-> Len(nodes) + 1, path |-> CurrentFile,
                             idx |-> 1])
    /\ UNCHANGED <<fs, build, buildError, router, chainVars, dispatchVars>>

pushFront(subRoutes, subRoute) == <<subRoute>> \o subRoutes

\* this.subRoutes.push(subRoute)
push(subRoutes, subRoute) == Append(subRoutes, subRoute)

\* the loop ends: the call returns, to line 58 (subRoutes.push) of its caller
\* or to fromDirectory, which returns the tree
LeaveDirectory ==
    /\ build = "walking"
    /\ Frame0.idx > Len(readdirSync(Frame0.path))
    /\ IF Len(walk) = 1
       THEN /\ walk' = <<>>
            /\ build' = "done"
            /\ nodes' = nodes
       ELSE LET caller == walk[Len(walk) - 1]
            IN  /\ nodes' = [nodes EXCEPT ![caller.node].subRoutes =
                                             push(@, Frame0.node)]
                /\ walk' = [SubSeq(walk, 1, Len(walk) - 1)
                               EXCEPT ![Len(walk) - 1].idx = @ + 1]
                /\ build' = build
    /\ UNCHANGED <<fs, buildError, router, chainVars, dispatchVars>>

\* lines 59-66: a file that is no method file is skipped
SkipFile ==
    /\ InLoop
    /\ ~IsDirectory(CurrentFile)
    /\ ~IsMethodFile(CurrentFileName)
    /\ walk' = Advance
    /\ UNCHANGED <<fs, nodes, build, buildError, router, chainVars, dispatchVars>>

Throw(e) ==
    /\ build' = "failed"
    /\ buildError' = e
    /\ walk' = <<>>
    /\ UNCHANGED <<fs, nodes, router, chainVars, dispatchVars>>

\* lines 66-103: what loading a method file does: throw, or bind the endpoint
LoadMethodFile(arena, this, file) ==
    LET endpointModule == Require(file)
        isKint == isKintEndpoint(endpointModule)
        missing == MissingUrlParams(endpointModule, getAllUrlParams(arena, this))
    IN  IF isKint = "TypeError"
        THEN [thrown |-> TRUE,
              error |-> [type |-> "TypeError",
                         text |-> "Cannot read properties of undefined",
                         path |-> <<>>, key |-> <<>>]]
        ELSE IF isKint # "true"
        THEN [thrown |-> TRUE,
              error |-> [type |-> "Error", text |-> "is not a Kint endpoint",
                         path |-> file, key |-> <<>>]]
        ELSE IF endpointModule.export = "artifact"
        \* line 82: endpoint.endpointDefinition.urlParams, endpointDefinition
        \* being undefined
        THEN [thrown |-> TRUE,
              error |-> [type |-> "TypeError",
                         text |-> "Cannot read properties of undefined",
                         path |-> <<>>, key |-> <<>>]]
        ELSE IF endpointModule.hasUrlParams /\ missing # <<>>
        THEN [thrown |-> TRUE,
              error |-> [type |-> "Error",
                         text |-> "defines a URL parameter that does not exist",
                         path |-> file, key |-> missing[1]]]
        ELSE [thrown |-> FALSE, error |-> NoError]

\* this.resource[method] = endpoint
Bind(resource, method, endpointModule) ==
    [m \in DOMAIN resource \cup {method} |->
        IF m = method THEN endpointModule ELSE resource[m]]

RejectEndpoint ==
    /\ InLoop
    /\ ~IsDirectory(CurrentFile)
    /\ IsMethodFile(CurrentFileName)
    /\ LoadMethodFile(nodes, Frame0.node, CurrentFile).thrown
    /\ Throw(LoadMethodFile(nodes, Frame0.node, CurrentFile).error)

BindEndpoint ==
    /\ InLoop
    /\ ~IsDirectory(CurrentFile)
    /\ IsMethodFile(CurrentFileName)
    /\ ~LoadMethodFile(nodes, Frame0.node, CurrentFile).thrown
    /\ nodes' = [nodes EXCEPT ![Frame0.node].resource =
                    Bind(@, CurrentFileName[1], Require(CurrentFile))]
    /\ walk' = Advance
    /\ UNCHANGED <<fs, build, buildError, router, chainVars, dispatchVars>>

\* the tree returned by fromDirectory is turned into a Router
ToExpressRouter ==
    /\ build = "done"
    /\ ~router.built
    /\ router' = toExpressRouter(nodes, 1)
    /\ UNCHANGED <<fs, nodes, walk, build, buildError, chainVars, dispatchVars>>

(***************************************************************************)
(* Specifications                                                          *)
(***************************************************************************)
IdleEndpoint ==
    [requestBody |-> Undefined, queryParams |-> Undefined,
     urlParams |-> Undefined, handler |-> "send"]

Init ==
    /\ ChainInit
    /\ DispatchIdle
    /\ BuildIdle
    /\ endpoint = IdleEndpoint

Next ==
    \/ AddMiddleware
    \/ ExtendConfig
    \/ SetConfig
    \/ DefineEndpoint
    \/ \E r \in Requests : Invoke(r)
    \/ \E r \in Requests : CallNext(r)
    \/ \E r \in Requests : Return(r)

Spec == Init /\ [][Next]_vars

InitDispatch ==
    /\ ChainIdle
    /\ DispatchIdle
    /\ BuildIdle
    /\ endpoint \in DispatchEndpoints

NextDispatch ==
    \/ Receive
    \/ HandlerCompletes

SpecDispatch == InitDispatch /\ [][NextDispatch]_vars

InitBuild ==
    /\ ChainIdle
    /\ DispatchIdle
    /\ endpoint = IdleEndpoint
    /\ BuildIdle

NextBuild ==
    \/ Mkdir
    \/ WriteFile
    \/ FromDirectory
    \/ EnterDirectory
    \/ LeaveDirectory
    \/ SkipFile
    \/ RejectEndpoint
    \/ BindEndpoint
    \/ ToExpressRouter

SpecBuild == InitBuild /\ [][NextBuild]_vars

\* the chains the router runs
Chains == UNION { [1..n -> RunMiddlewares] : n \in 0..MaxChain }

\* the heap after Kint.new().setConfig(d).addMiddleware(chain[1])...
RECURSIVE Compose(_, _)
Compose(chain, d) ==
    IF chain = <<>>
    THEN setConfig(<<KintNew>>, 1, [fn |-> "none", value |-> d])
    ELSE LET heap == Compose(SubSeq(chain, 1, Len(chain) - 1), d)
         IN  addMiddleware(heap, Len(heap), chain[Len(chain)])

\* one endpoint, defined on a composed Kint, is served by the router
InitRun ==
    /\ \E chain \in Chains, d \in PartialConfigs, c \in EndpointConfigs :
          /\ kints = Compose(chain, d)
          /\ endpoints = <<defineEndpoint(kints[Len(kints)], c)>>
          /\ given = <<[defaultConfig |-> d, config |-> c]>>
    /\ contexts = <<NewContext>>
    /\ req = [r \in Requests |-> IdleRequest]
    /\ DispatchIdle
    /\ endpoint = IdleEndpoint
    /\ BuildIdle

NextRun ==
    \/ \E r \in Requests : Invoke(r)
    \/ \E r \in Requests : CallNext(r)
    \/ \E r \in Requests : Return(r)

SpecRun == InitRun /\ [][NextRun]_vars

\* endpoints defined with nested configs on Kint.new().setConfig(d)
InitMerge ==
    /\ \E d \in NestedConfigs :
          kints = setConfig(<<KintNew>>, 1, [fn |-> "none", value |-> d])
    /\ endpoints = <<>>
    /\ given = <<>>
    /\ contexts = <<NewContext>>
    /\ req = [r \in Requests |-> IdleRequest]
    /\ DispatchIdle
    /\ endpoint = IdleEndpoint
    /\ BuildIdle

\* each run defines one endpoint
DefineNestedEndpoint == endpoints = <<>> /\ DefineEndpointFrom(NestedConfigs)

NextMerge == DefineNestedEndpoint

SpecMerge == InitMerge /\ [][NextMerge]_vars

(***************************************************************************)
(* Properties of the middleware chains (Spec)                              *)
(***************************************************************************)
Chain(r) == endpoints[req[r].ep].chain

AllCallNextOnce(chain) == \A i \in DOMAIN chain : chain[i].calls = 1

IsPrefix(s, t) == Len(s) <= Len(t) /\ s = SubSeq(t, 1, Len(s))

\* chain[i] is the i-th middleware added: Mn, ..., M1 before their next calls,
\* the innermost handler, then M1, ..., Mn after their next calls
ExpectedLog(n) ==
    [k \in 1..(2 * n + 1) |->
        IF k <= n THEN Event("pre", n - k + 1)
        ELSE IF k = n + 1 THEN Event("handler", 0)
        ELSE Event("post", k - n - 1)]

\* C1: in a chain built by adding M1, ..., Mn whose middleware all call next
\* exactly once, one invocation of the compiled handler runs Mn, ..., M1, then
\* the innermost handler, then the code after next of M1, ..., Mn; with n = 0
\* the innermost handler runs directly.
CompositionOrder ==
    \A r \in Requests :
        (req[r].status # "idle" /\ AllCallNextOnce(Chain(r))) =>
            /\ IsPrefix(req[r].log, ExpectedLog(Len(Chain(r))))
            /\ req[r].status = "done" => req[r].log = ExpectedLog(Len(Chain(r)))

CompositionOrderWitness ==
    \E r \in Requests :
        /\ req[r].status = "done"
        /\ Len(Chain(r)) >= 2
        /\ AllCallNextOnce(Chain(r))
        /\ Len(req[r].log) = 2 * Len(Chain(r)) + 1

\* C2: while two requests are in flight, the context that one of them reads
\* holds no value that a middleware wrote while serving the other.
ContextIsolation ==
    \A a, b \in Requests :
        (a # b /\ req[a].status = "running" /\ req[b].status = "running") =>
            \A s \in ContextSlots : contexts[req[b].ctx][s] # Token(a)

\* C8: addMiddleware, extendConfig and setConfig leave every existing Kint
\* (its middleware stack and its default config) and every endpoint already
\* defined as they were.
ReceiverUnchanged ==
    [][ /\ \A k \in DOMAIN kints : k \in DOMAIN kints' /\ kints'[k] = kints[k]
        /\ \A e \in DOMAIN endpoints :
              e \in DOMAIN endpoints' /\ endpoints'[e] = endpoints[e] ]_vars

\* two chains derived independently from the base chain, one of them with a
\* changed default config, and an endpoint defined from the base afterwards
ReceiverUnchangedWitness ==
    /\ Len(kints) = 3
    /\ kints[1] = KintNew
    /\ Len(kints[2].handlerBuilder) = 1
    /\ kints[3].handlerBuilder = <<>>
    /\ kints[3].defaultConfig # NoConfig
    /\ Len(endpoints) = 1
    /\ endpoints[1] = defineEndpoint(KintNew, NoConfig)

\* the request r whose middleware calls next in this step
CallsNext(r) ==
    /\ req[r].status = "running"
    /\ Len(req'[r].stack) = Len(req[r].stack) + 1

\* C9: when a middleware named N calls next with an extension value e, falsy
\* values included, context[N] equals e when the inner handler starts, and no
\* other slot of the context is written.
NextWritesExtension ==
    [][ \A r \in Requests :
          CallsNext(r) =>
            LET middleware == Chain(r)[Top(r).layer]
                e == Extension(middleware, r)
            IN  e # Undefined =>
                  /\ contexts'[req[r].ctx][middleware.name] = e
                  /\ \A s \in ContextSlots \ {middleware.name} :
                        contexts'[req[r].ctx][s] = contexts[req[r].ctx][s] ]_vars

NamesOf(chain) == {chain[i].name : i \in DOMAIN chain}

\* C10: no compiled handler holds two middleware with the same name (adding a
\* middleware whose name the chain already uses is refused).
UniqueMiddlewareNames ==
    \A e \in DOMAIN endpoints :
        Cardinality(NamesOf(endpoints[e].chain)) = Len(endpoints[e].chain)

(***************************************************************************)
(* Properties of the dispatch handler (SpecDispatch)                       *)
(***************************************************************************)
FieldOrder == <<"body", "query", "params">>

SchemaOf(f) ==
    CASE f = "body" -> endpoint.requestBody
      [] f = "query" -> endpoint.queryParams
      [] OTHER -> endpoint.urlParams

\* the result of parsing field f of the request as it arrived
ParseOf(f) == parseSchemaDefinition(OrEmptySchema(SchemaOf(f)), incoming[f])

Failing == {i \in 1..3 : ~ParseOf(FieldOrder[i]).success}

FirstFailing == CHOOSE i \in Failing : \A j \in Failing : i <= j

Received == pc # "idle"

\* C3: when the body, the query parameters or the URL parameters fail to
\* parse, the endpoint handler is never invoked for the request and the
\* response is a 400 whose body holds the message of a parse failure.
ParseFailureRejects ==
    (Received /\ Failing # {}) =>
        /\ handlerCalls = <<>>
        /\ pc = "done"
        /\ nextCalls = 0
        /\ response.status = 400
        /\ \E i \in Failing :
              response.body = <<"Bad request: ">> \o ParseOf(FieldOrder[i]).error

ParseFailureRejectsWitness ==
    /\ Received
    /\ Failing = {3}
    /\ endpoint.requestBody = "number"
    /\ incoming.body = " 7"
    /\ response.status = 400

\* C4: the fields are parsed in the order body, query, URL parameters up to
\* the first failure: the response carries that field's error, exactly one
\* response is sent, the fields before it are rewritten, the fields after it
\* are neither parsed nor rewritten.
FirstFailureWins ==
    (Received /\ Failing # {}) =>
        /\ parsed = SubSeq(FieldOrder, 1, FirstFailing)
        /\ response.body =
              <<"Bad request: ">> \o ParseOf(FieldOrder[FirstFailing]).error
        /\ response.sends = 1
        /\ \A i \in 1..3 :
              request[FieldOrder[i]] =
                 IF i < FirstFailing THEN ParseOf(FieldOrder[i]).data
                 ELSE incoming[FieldOrder[i]]

\* body parses (and is coerced), query and URL parameters are both invalid
FirstFailureWinsWitness ==
    /\ Received
    /\ Failing = {2, 3}
    /\ request.body # incoming.body
    /\ parsed = <<"body", "query">>

\* C5: when all three fields satisfy their schemas the endpoint handler is
\* invoked exactly once, with each field replaced by its parsed value, and
\* the response is what the handler returns.
RoundTrip ==
    (pc = "done" /\ Failing = {}) =>
        /\ Len(handlerCalls) = 1
        /\ \A i \in 1..3 :
              handlerCalls[1][FieldOrder[i]] = ParseOf(FieldOrder[i]).data
        /\ response.body = returned

(***************************************************************************)
(* Properties of fromDirectory (SpecBuild)                                 *)
(***************************************************************************)
MethodFiles == {e \in fs : e.kind = "file" /\ IsMethodFile(Last(e.path))}

\* the endpoint loaded from method file e
Loaded(e) == Require(e.path)

AllMarked == \A e \in MethodFiles : Loaded(e).export = "endpoint"

\* the URL parameters a directory path defines: the identifiers of its
\* bracketed directory names
PathUrlParams(path) ==
    {SubSeq(path[i], 2, Len(path[i]) - 1) :
        i \in {j \in DOMAIN path : IsUrlParamName(path[j])}}

DeclaredUrlParams(e) ==
    IF Loaded(e).hasUrlParams THEN Range(Loaded(e).urlParams) ELSE {}

Uncovered(e) == DeclaredUrlParams(e) \ PathUrlParams(Parent(e.path))

RECURSIVE AncestorUrlParams(_)
AncestorUrlParams(n) ==
    IF n = 0 THEN {}
    ELSE (IF nodes[n].isUrlParam THEN {nodes[n].name} ELSE {})
         \cup AncestorUrlParams(nodes[n].parent)

Unmarked ==
    {e \in MethodFiles : Loaded(e).export \notin {"endpoint", "artifact"}}

Artifacts == {e \in MethodFiles : Loaded(e).export = "artifact"}

\* C7: a method file whose export lacks the marker (a module without default
\* export included) fails the build with an error that names the file's path;
\* no tree is returned and the export is bound into no node.
UnmarkedModuleRejected ==
    Artifacts = {} =>
        /\ (build = "done") => Unmarked = {}
        /\ (build = "failed" /\ buildError.key = <<>>) =>
              \E e \in Unmarked : buildError.path = e.path
        /\ \A n \in DOMAIN nodes : \A m \in DOMAIN nodes[n].resource :
              nodes[n].resource[m].export = "endpoint"

(***************************************************************************)
(* Merged configuration                                                    *)
(***************************************************************************)
\* `merged` holds the endpoint's `value` wherever the endpoint supplied one
\* and the default's only under keys the endpoint left absent
RECURSIVE Keeps(_, _, _)
Keeps(merged, defaultValue, value) ==
    IF value = Absent THEN merged = defaultValue
    ELSE IF ~IsObject(value) THEN merged = value
    ELSE /\ IsObject(merged)
         /\ \A k \in DOMAIN value[2] :
               Keeps(Get(merged, k),
                     IF IsObject(defaultValue) THEN Get(defaultValue, k) ELSE Absent,
                     value[2][k])
         /\ \A k \in DOMAIN merged[2] \ DOMAIN value[2] :
               IsObject(defaultValue) /\ Get(merged, k) = Get(defaultValue, k)

\* C11: the merged config of an endpoint keeps every value the endpoint
\* supplied and takes from the default only the keys, at any depth, that the
\* endpoint left absent; merging the default into it again changes nothing.
MergeKeepsEndpointValues ==
    \A e \in DOMAIN endpoints :
        /\ \A k \in MiddlewareNames :
              Keeps(endpoints[e].config[k], given[e].defaultConfig[k],
                    given[e].config[k])
        /\ mergeDefaultWithMissingItems(given[e].defaultConfig,
                                        endpoints[e].config)
             = endpoints[e].config

\* an endpoint whose "auth" object was completed two objects deep from the
\* default's, while a leaf of its own replaced the default's
MergeKeepsEndpointValuesWitness ==
    \E e \in DOMAIN endpoints :
        LET value == given[e].config["auth"]
            defaultValue == given[e].defaultConfig["auth"]
            merged == endpoints[e].config["auth"]
        IN  /\ IsObject(value) /\ IsObject(defaultValue)
            /\ Get(value, "ttl") = Leaf("x")
            /\ Get(defaultValue, "ttl") = Leaf("y")
            /\ IsObject(Get(value, "mode"))
            /\ IsObject(Get(defaultValue, "mode"))
            /\ Get(Get(value, "mode"), "ttl") = Absent
            /\ Get(Get(defaultValue, "mode"), "ttl") = Leaf("y")
            /\ Get(merged, "ttl") = Leaf("x")
            /\ Get(Get(merged, "mode"), "ttl") = Leaf("y")

(***************************************************************************)
(* The Router of a tree                                                    *)
(***************************************************************************)
\* router `r` registers exactly the endpoints of node n, each at '/', and
\* mounts exactly the children of n, each at '/' + name with ':' in front of
\* the name of a URL parameter
RECURSIVE ExactRouter(_, _)
ExactRouter(r, n) ==
    /\ \A i \in DOMAIN r.routes :
          r.routes[i].method \in Methods /\ r.routes[i].path = <<"/">>
    /\ \A m \in Methods :
          Cardinality({i \in DOMAIN r.routes : r.routes[i].method = m})
            = IF m \in DOMAIN nodes[n].resource THEN 1 ELSE 0
    /\ Len(r.mounts) = Len(nodes[n].subRoutes)
    /\ \A i \in DOMAIN r.mounts :
          LET child == nodes[nodes[n].subRoutes[i]]
          IN  /\ r.mounts[i].path =
                    IF child.isUrlParam THEN <<"/", ":">> \o child.name
                    ELSE <<"/">> \o child.name
              /\ ExactRouter(r.mounts[i].router, nodes[n].subRoutes[i])

\* C12: the Router built from a tree registers a handler at '/' for a method
\* exactly when the node's resource has an endpoint for it, and mounts every
\* child exactly once at '/' + name, with ':' before the name exactly for
\* URL parameter nodes.
RouterRegistersExactlyTheTree == router.built => ExactRouter(router, 1)

\* a Router with a GET but no POST route, a parameter mount and a literal mount
RouterRegistersExactlyTheTreeWitness ==
    /\ router.built
    /\ "GET" \in DOMAIN nodes[1].resource
    /\ "POST" \notin DOMAIN nodes[1].resource
    /\ \E i, j \in DOMAIN router.mounts :
          router.mounts[i].path[2] = ":" /\ router.mounts[j].path[2] # ":"

(***************************************************************************)
(* The shape of the tree                                                   *)
(***************************************************************************)
\* two files of one directory that name the same method
SameMethod(e, f) ==
    /\ e # f
    /\ Parent(e.path) = Parent(f.path)
    /\ Last(e.path)[1] = Last(f.path)[1]

\* C15: a node holds at most one endpoint per method and none is overwritten:
\* a directory with two files for one method (GET.ts and GET.js) makes
\* fromDirectory fail instead of returning a tree.
DuplicateMethodRejected ==
    build = "done" => \A e, f \in MethodFiles : ~SameMethod(e, f)

\* a directory name of the form '[identifier]'
BracketedWord(directoryName) ==
    /\ Len(directoryName) = 3
    /\ directoryName[1] = "["
    /\ IsWord(directoryName[2])
    /\ directoryName[3] = "]"

\* C16: a node is a URL parameter node exactly when its directory is named
\* '[identifier]', and then carries the identifier as its name; any other
\* directory gives a literal node named as the directory; the root is a
\* literal node named 'root' without parent; no node is renamed or moved.
NodesNamedAfterDirectories ==
    [][ /\ \A n \in DOMAIN nodes :
              /\ n \in DOMAIN nodes'
              /\ nodes'[n].name = nodes[n].name
              /\ nodes'[n].isUrlParam = nodes[n].isUrlParam
              /\ nodes'[n].parent = nodes[n].parent
        /\ Len(nodes') > Len(nodes) =>
              LET node == nodes'[Len(nodes')]
              IN  /\ Len(nodes') = Len(nodes) + 1
                  /\ IF nodes = <<>>
                     THEN /\ node.name = <<"root">>
                          /\ ~node.isUrlParam
                          /\ node.parent = 0
                     ELSE /\ node.parent = Frame0.node
                          /\ node.isUrlParam = BracketedWord(CurrentFileName)
                          /\ node.name = IF BracketedWord(CurrentFileName)
                                         THEN <<CurrentFileName[2]>>
                                         ELSE CurrentFileName
      ]_vars

\* the tree holds the parameter node 'id' and the literal node '[a-b]'
NodesNamedAfterDirectoriesWitness ==
    /\ build = "done"
    /\ \E n, m \in DOMAIN nodes :
          /\ nodes[n].isUrlParam /\ nodes[n].name = <<"id">>
          /\ ~nodes[m].isUrlParam /\ nodes[m].name = <<"[", "a", "-", "b", "]">>

\* the directory name a node was created from
DirectoryName(node) ==
    IF node.isUrlParam THEN <<"[">> \o node.name \o <<"]">> ELSE node.name

\* the directory a node was created from
RECURSIVE DirectoryOf(_)
DirectoryOf(n) ==
    IF nodes[n].parent = 0 THEN <<>>
    ELSE Append(DirectoryOf(nodes[n].parent), DirectoryName(nodes[n]))

\* the subdirectories among a sequence of entries of directory `path`
SubDirectories(path, entries) ==
    SelectSeq(entries, LAMBDA name : IsDirectory(Append(path, name)))

\* the methods of the method files among the entries
MethodsAmong(entries) ==
    {entries[i][1] : i \in {j \in DOMAIN entries : IsMethodFile(entries[j])}}

ChildDirectories(n) ==
    [i \in DOMAIN nodes[n].subRoutes |->
        DirectoryName(nodes[nodes[n].subRoutes[i]])]

\* node n and its whole subtree hold what the first `count` entries of its
\* directory give (all entries, for the nodes below n)
RECURSIVE Populated(_, _)
Populated(n, count) ==
    LET path == DirectoryOf(n)
        entries == SubSeq(readdirSync(path), 1, count)
    IN  /\ ChildDirectories(n) = SubDirectories(path, entries)
        /\ DOMAIN nodes[n].resource = MethodsAmong(entries)
        /\ \A i \in DOMAIN nodes[n].subRoutes :
              LET child == nodes[n].subRoutes[i]
              IN  Populated(child,
                            Len(readdirSync(Append(path, ChildDirectories(n)[i]))))

\* the mounts of router r follow the subdirectories of `path` in entry order
RECURSIVE MountedInEntryOrder(_, _)
MountedInEntryOrder(r, path) ==
    LET dirs == SubDirectories(path, readdirSync(path))
    IN  /\ Len(r.mounts) = Len(dirs)
        /\ \A i \in DOMAIN dirs :
              /\ r.mounts[i].path =
                    IF BracketedWord(dirs[i]) THEN <<"/", ":", dirs[i][2]>>
                    ELSE <<"/">> \o dirs[i]
              /\ MountedInEntryOrder(r.mounts[i].router, Append(path, dirs[i]))

\* C17: the walk is sequential and depth-first: one directory is walked at a
\* time, inside the entry its caller rests on; every child listed by a node is
\* fully populated, and the children are listed in directory-entry order, as
\* are the mounts of the Router.
DepthFirstInEntryOrder ==
    /\ \A i \in 1..(Len(walk) - 1) :
          /\ walk[i].idx \in DOMAIN readdirSync(walk[i].path)
          /\ walk[i + 1].path =
                Append(walk[i].path, readdirSync(walk[i].path)[walk[i].idx])
          /\ walk[i + 1].node \notin Range(nodes[walk[i].node].subRoutes)
    /\ \A i \in DOMAIN walk :
          /\ DirectoryOf(walk[i].node) = walk[i].path
          /\ Populated(walk[i].node, walk[i].idx - 1)
    /\ build = "done" => Populated(1, Len(readdirSync(<<>>)))
    /\ router.built => MountedInEntryOrder(router, <<>>)

\* a Router of a root with two subdirectories, the first with one of its own
DepthFirstInEntryOrderWitness ==
    /\ router.built
    /\ Len(router.mounts) = 2
    /\ Len(router.mounts[1].router.mounts) = 1
    /\ router.mounts[1].path # router.mounts[2].path

\* C20: an artifact returned by Kint.defineEndpoint is accepted by the route
\* tree builder: a directory whose method files all export such artifacts
\* does not make fromDirectory fail.
ArtifactAccepted ==
    (MethodFiles # {} /\ Artifacts = MethodFiles) => build # "failed"

NoSchema == {f \in Range(FieldOrder) : SchemaOf(f) = Undefined}

OwnConfigSlot ==
    \A r \in Requests : \A i \in DOMAIN req[r].received :
        LET call == req[r].received[i]
            merged == endpoints[req[r].ep].config
            middleware == endpoints[req[r].ep].chain[call.layer]
        IN  /\ call.config = merged
            /\ call.layer > 0 =>
                  /\ call.slot = merged[middleware.name]
                  /\ \A k \in MiddlewareNames \ {middleware.name} :
                        \A v \in {Absent, Leaf("other")} :
                            configSlot([merged EXCEPT ![k] = v], middleware)
                              = call.slot

\* "log" received the endpoint's "loud" and "auth" the default's "strict"
OwnConfigSlotWitness ==
    \E r \in Requests :
        /\ req[r].status = "done"
        /\ \E i, j \in DOMAIN req[r].received :
              LET chain == endpoints[req[r].ep].chain
                  a == req[r].received[i]
                  b == req[r].received[j]
              IN  /\ a.layer > 0 /\ chain[a.layer].name = "log"
                  /\ a.slot = Leaf("loud")
                  /\ b.layer > 0 /\ chain[b.layer].name = "auth"
                  /\ b.slot = Leaf("strict")

\* how often layer j was entered
Entries(r, j) ==
    Cardinality({i \in DOMAIN req[r].log :
                    req[r].log[i] = Entered(j)})

\* how often layer j runs when the layers above it call next as they do
RECURSIVE Runs(_, _)
Runs(chain, j) ==
    IF j = Len(chain) THEN 1 ELSE chain[j + 1].calls * Runs(chain, j + 1)

\* what layer i returns: the reply of the outermost of the layers 1..i that
\* does not call next, else the response of the innermost handler
RECURSIVE Outcome(_, _)
Outcome(chain, i) ==
    IF i = 0 THEN <<"handled">>
    ELSE IF chain[i].calls = 0 THEN <<"reply of", chain[i].name>>
    ELSE Outcome(chain, i - 1)

\* C19: an inner layer runs only when the layer around it calls next, once
\* per call: below a middleware that returns without calling next nothing runs
\* and its return value is the result of the chain; a middleware that calls
\* next twice runs everything inside it twice.
InnerRunsThroughNext ==
    \A r \in Requests :
        req[r].status # "idle" =>
            LET chain == endpoints[req[r].ep].chain
            IN  /\ \A j \in 0..Len(chain) :
                      /\ Entries(r, j) <= Runs(chain, j)
                      /\ req[r].status = "done" => Entries(r, j) = Runs(chain, j)
                /\ req[r].status = "done" =>
                      req[r].result = Outcome(chain, Len(chain))

\* below "gate", which never calls next, nothing ran and the request ended
\* with the gate's reply; "retry" around it ran it twice
InnerRunsThroughNextWitness ==
    \E r \in Requests :
        LET chain == endpoints[req[r].ep].chain
        IN  /\ req[r].status = "done"
            /\ Len(chain) = 2
            /\ chain[1].name = "gate" /\ chain[2].name = "retry"
            /\ Entries(r, 1) = 2
            /\ Entries(r, 0) = 0
            /\ req[r].result = <<"reply of", "gate">>

====
